---- MODULE Spec2Model ----
(***************************************************************************)
(* PlantBot: one community's PlantManager (src/plant.py) as a state        *)
(* machine.  Floats are fixed-point integers with Scale units per 1.0      *)
(* (hydration and happiness in percent, prices and balances in dollars);   *)
(* a product is rounded to the nearest unit, as a float product is rounded *)
(* to the nearest float.  A handler is atomic between its                  *)
(* awaits: asyncio runs one coroutine at a time and switches only at an    *)
(* await, so the tick and the commands interleave at those points only.    *)
(* The bot (src/bot.py) keeps one manager per community in plant_managers  *)
(* and builds them in its ready handler.                                   *)
(***************************************************************************)
EXTENDS Integers, Sequences, FiniteSets, TLC

\* ------------------------------------------------------------- bounds
Scale == 100 * 100
\* ticks and commands of one behaviour of Spec, together
MaxSteps == 2
\* ticks of the pure-decay run of SpecDecay
MaxDecayTicks == 2001
\* fruit tokens the plant grows in the pure-decay run
MaxDecayFruits == 1
\* the members that issue commands
Members == {11, 22}
\* the members of the leaderboard specification
BankMembers == {11, 22, 33}
\* bank queries of one behaviour of SpecBank
MaxBankCmds == 2
\* the modelled part of the catalog FRUIT_MARKET
Catalog == {":apple:", ":banana:"}
\* random.random(), in Scale units of [0, 1)
RandomDraws == {0, 1250, 2400, 9999}
\* random.uniform(0.98, 1.0225), in Scale units
NoiseFactors == {9800, 10225}
\* the neutral draw of the band
NeutralNoise == {10000}
\* the communities of DISCORD_GUILD in the startup specification
Communities == {1, 2, 3}
\* runs of the ready handler in one behaviour of SpecBoot
MaxReadies == 2

\* ------------------------------------------------------ program constants
StartHydration == 100
StartHappiness == 50
WaterAmount == 10
PetAmount == 10
HappinessCap == 100
OverwaterLimit == 200
UnderwaterLimit == 0
FruitCap == 20
SpawnDivisor == 400
HappinessDecay == 9925
SellDepress == 8
\* 0.1 of hydration lost per tick
HydrationLoss == Scale \div 10
\* 0.01 of price pushed back per tick
Nudge == Scale \div 100

BasePrice(fruit) ==
    CASE fruit = ":apple:" -> Scale
      [] fruit = ":banana:" -> Scale \div 2

FRUIT_MARKET == [fruit \in Catalog |-> BasePrice(fruit)]

\* ------------------------------------------------------------- arithmetic
\* x * (f / Scale), rounded to the nearest unit; split so that no product
\* leaves 32 bits
Mul(x, f) == (x \div Scale) * f + ((x % Scale) * f + Scale \div 2) \div Scale

Min(a, b) == IF a <= b THEN a ELSE b

\* round(x, 2): to the nearest cent
Round2(x) == ((x + (Scale \div 200)) \div (Scale \div 100)) * (Scale \div 100)

\* ------------------------------------------------------------- state
VARIABLES
    name, hydration, happiness, alive, death_cause, fruits,
    economy, inventories, market,
    snapshot, origin, harvesting, reply, ticks, cmds,
    grown, sold,
    guild_ids, records, plant_managers, loops, readies, unserved

plantVars == <<name, hydration, happiness, alive, death_cause, fruits>>
econVars == <<economy, inventories, market>>
\* the bot: the startup order, the pickle file of each community, the dict of
\* managers, the tick loops that run, the ready events so far, and the
\* communities whose command died on the lookup of their manager
botVars == <<guild_ids, records, plant_managers, loops, readies, unserved>>
vars == <<name, hydration, happiness, alive, death_cause, fruits,
          economy, inventories, market,
          snapshot, origin, harvesting, reply, ticks, cmds,
          grown, sold,
          guild_ids, records, plant_managers, loops, readies, unserved>>

NoFile == [file |-> "absent"]
None == "None"
NoReply == [kind |-> "none"]
\* a message whose text the model does not keep
Text == [kind |-> "text"]

\* the dict of balances, in insertion order: a sequence of (uid, balance)
Tracked(eco) == {eco[i].uid : i \in 1..Len(eco)}
IndexOf(eco, uid) == CHOOSE i \in 1..Len(eco) : eco[i].uid = uid
Balance(eco, uid) == eco[IndexOf(eco, uid)].bal

\* the dict of inventories: a function on the members that have one
Holders(inv) == DOMAIN inv
EmptyDict == <<>>

\* the community whose manager the plant and economy variables describe
Gid == 1

\* the fruit tokens of a state: those on the plant and those in the inventories
RECURSIVE HeldBy(_, _)
HeldBy(inv, members) ==
    IF members = {} THEN 0
    ELSE LET m == CHOOSE x \in members : TRUE
         IN  Len(inv[m]) + HeldBy(inv, members \ {m})
Tokens(fruit, inv) == Len(fruit) + HeldBy(inv, DOMAIN inv)

\* what __dump pickles
Attributes ==
    [name |-> name, hydration |-> hydration, happiness |-> happiness,
     alive |-> alive, death_cause |-> death_cause, fruit |-> fruits,
     economy |-> economy, inventories |-> inventories, assets |-> EmptyDict,
     market |-> market]

\* __reset_plant and __reset_economy: the state of a community with no file
FreshAttributes ==
    [name |-> "Plant", hydration |-> StartHydration * Scale,
     happiness |-> StartHappiness * Scale, alive |-> TRUE, death_cause |-> None,
     fruit |-> <<>>, economy |-> <<>>, inventories |-> EmptyDict,
     assets |-> EmptyDict, market |-> FRUIT_MARKET]

\* the happiness h after n ticks of decay
RECURSIVE DecayBy(_, _)
DecayBy(h, n) == IF n = 0 THEN h ELSE DecayBy(Mul(h, HappinessDecay), n - 1)

\* Records an earlier run of the manager wrote at a tick.  Drought: a renamed
\* plant never watered for 1000 ticks and petted to the cap before the last
\* one, with fruit harvested by member 1 and a balance opened by member 2.
\* Flood: a plant watered ten times in its first ten ticks.
Drought ==
    [name |-> "Fern", hydration |-> 0,
     happiness |-> Mul(HappinessCap * Scale, HappinessDecay),
     alive |-> TRUE, death_cause |-> None, fruit |-> <<":banana:">>,
     economy |-> <<[uid |-> 22, bal |-> 0]>>,
     inventories |-> (11 :> <<":apple:", ":banana:", ":apple:", ":apple:">>),
     assets |-> EmptyDict, market |-> FRUIT_MARKET]

Flood ==
    [name |-> "Plant", hydration |-> (StartHydration + 10 * WaterAmount) * Scale
                                      - 10 * HydrationLoss,
     happiness |-> DecayBy(StartHappiness * Scale, 10),
     alive |-> TRUE, death_cause |-> None, fruit |-> <<>>,
     economy |-> <<>>, inventories |-> EmptyDict,
     assets |-> EmptyDict, market |-> FRUIT_MARKET]

\* Grave: the plant of Flood watered once more and dead at the next tick, after
\* member 11 sold two apples at the base price and kept a banana.
Grave ==
    [name |-> "Moss", hydration |-> (StartHydration + 11 * WaterAmount) * Scale
                                     - 11 * HydrationLoss,
     happiness |-> DecayBy(StartHappiness * Scale, 11),
     alive |-> FALSE, death_cause |-> "overwatering", fruit |-> <<":apple:">>,
     economy |-> <<[uid |-> 11, bal |-> Scale + (Scale * SellDepress) \div 10]>>,
     inventories |-> (11 :> <<":banana:">>),
     assets |-> EmptyDict,
     market |-> (":apple:" :> ((Scale * SellDepress * SellDepress) \div 100 + Nudge)
                 @@ ":banana:" :> Scale \div 2)]

SavedStates == {Drought, Flood, Grave}

\* __load: every attribute from the pickled record
Load(rec) ==
    /\ name = rec.name
    /\ hydration = rec.hydration
    /\ happiness = rec.happiness
    /\ alive = rec.alive
    /\ death_cause = rec.death_cause
    /\ fruits = rec.fruit
    /\ economy = rec.economy
    /\ inventories = rec.inventories
    /\ market = rec.market

\* __init__: load the community's file, or start fresh when there is none
Construct(files) ==
    /\ \/ /\ snapshot = NoFile
          /\ origin = "fresh"
          /\ Load(FreshAttributes)
       \/ /\ snapshot \in files
          /\ origin = "loaded"
          /\ Load(snapshot)
    /\ harvesting = {}
    /\ reply = NoReply
    /\ ticks = 0
    /\ cmds = 0
    /\ grown = Tokens(fruits, inventories)
    /\ sold = 0

\* the bot after its ready handler has run once for the one community Gid
Resident ==
    /\ guild_ids = <<Gid>>
    /\ records = (Gid :> IF snapshot = NoFile THEN "absent" ELSE "valid")
    /\ plant_managers = (Gid :> 1)
    /\ loops = {[gid |-> Gid, manager |-> 1]}
    /\ readies = 1
    /\ unserved = {}

Init == Construct(SavedStates) /\ Resident

\* ------------------------------------------------------------- the tick
\* __adjust_market, one fruit: push back towards the base price, then the noise
Reprice(fruit, price, noise) ==
    LET up == IF price < FRUIT_MARKET[fruit] THEN price + Nudge ELSE price
        down == IF up > FRUIT_MARKET[fruit] * 2 THEN up - Nudge ELSE up
    IN  Mul(down, noise)

\* AdjustMarket done only for a live plant, as if the call sat inside the
\* alive branch of the tick
AdjustMarketIfAlive(noise) ==
    IF alive
    THEN [fruit \in DOMAIN market |-> Reprice(fruit, market[fruit], noise[fruit])]
    ELSE market

AdjustMarket(noise) == [fruit \in DOMAIN market |-> Reprice(fruit, market[fruit], noise[fruit])]

\* the death checks of __tick on the hydration after the loss
DeathCause(h, cause) ==
    LET over == IF h > OverwaterLimit * Scale THEN "overwatering" ELSE cause
    IN  IF h < UnderwaterLimit * Scale THEN "underwatering" ELSE over

\* Survives with the limits themselves deadly (>= and <= for > and <)
SurvivesInside(h) == h < OverwaterLimit * Scale /\ h > UnderwaterLimit * Scale

Survives(h) == ~(h > OverwaterLimit * Scale) /\ ~(h < UnderwaterLimit * Scale)

\* Tick with the cap tested after the fruit is counted in (<= for <)
TickOverCap(u, pick, noise, budget) ==
    /\ IF alive
       THEN LET h == hydration - HydrationLoss
                joy == Mul(happiness, HappinessDecay)
                grows == Len(fruits) <= FruitCap /\ u * SpawnDivisor <= joy
            IN  /\ hydration' = h
                /\ death_cause' = DeathCause(h, death_cause)
                /\ alive' = Survives(h)
                /\ happiness' = joy
                /\ grows => budget
                /\ fruits' = IF grows THEN Append(fruits, pick) ELSE fruits
                /\ grown' = IF grows THEN grown + 1 ELSE grown
                /\ name' = name
       ELSE UNCHANGED <<plantVars, grown>>
    /\ market' = AdjustMarket(noise)
    /\ UNCHANGED <<economy, inventories>>
    /\ snapshot' = [name |-> name', hydration |-> hydration', happiness |-> happiness',
                    alive |-> alive', death_cause |-> death_cause', fruit |-> fruits',
                    economy |-> economy', inventories |-> inventories',
                    assets |-> EmptyDict, market |-> market']
    /\ records' = [records EXCEPT ![Gid] = "valid"]
    /\ ticks' = ticks + 1
    /\ UNCHANGED <<origin, harvesting, reply, cmds, sold>>
    /\ UNCHANGED <<guild_ids, plant_managers, loops, readies, unserved>>

\* __tick with the draws u (random.random), pick (random.choice) and noise
\* (random.uniform, one per fruit); budget bounds the fruit of the model
Tick(u, pick, noise, budget) ==
    /\ IF alive
       THEN LET h == hydration - HydrationLoss
                joy == Mul(happiness, HappinessDecay)
                grows == Len(fruits) < FruitCap /\ u * SpawnDivisor <= joy
            IN  /\ hydration' = h
                /\ death_cause' = DeathCause(h, death_cause)
                /\ alive' = Survives(h)
                /\ happiness' = joy
                /\ grows => budget
                /\ fruits' = IF grows THEN Append(fruits, pick) ELSE fruits
                /\ grown' = IF grows THEN grown + 1 ELSE grown
                /\ name' = name
       ELSE UNCHANGED <<plantVars, grown>>
    /\ market' = AdjustMarket(noise)
    /\ UNCHANGED <<economy, inventories>>
    /\ snapshot' = [name |-> name', hydration |-> hydration', happiness |-> happiness',
                    alive |-> alive', death_cause |-> death_cause', fruit |-> fruits',
                    economy |-> economy', inventories |-> inventories',
                    assets |-> EmptyDict, market |-> market']
    /\ records' = [records EXCEPT ![Gid] = "valid"]
    /\ ticks' = ticks + 1
    /\ UNCHANGED <<origin, harvesting, reply, cmds, sold>>
    /\ UNCHANGED <<guild_ids, plant_managers, loops, readies, unserved>>

\* ------------------------------------------------------------- commands
\* args of "$plant ...": the tokens after the command prefix
Inputs ==
    { <<>>, <<"respawn">>, <<"r">>, <<"water">>, <<"w">>, <<"pet">>, <<"p">>,
      <<"name">>, <<"name", "Fern">>, <<"n", "Old", "Oak">>,
      <<"harvest">>, <<"h">>, <<"inventory">>, <<"i">>,
      <<"bank">>, <<"b">>, <<"bank", "all">>, <<"b", "top">>,
      <<"market">>, <<"m">>,
      <<"sell">>, <<"s", "all">>, <<"sell", "apple">>,
      <<"sell", "apple", "two">>, <<"sell", "all", "2">>, <<"sell", "pear", "1">>,
      <<"sell", "apple", "-1">>, <<"sell", "apple", "0">>, <<"sell", "apple", "1">>,
      <<"sell", "apple", "2">>, <<"s", "apple", "9">>,
      <<"sell", "banana", "1">>, <<"sell", "banana", "2">>,
      <<"dance">> }

\* the match statement of process_cmd
Route(args) ==
    IF Len(args) = 0 THEN "summary"
    ELSE CASE args[1] \in {"respawn", "r"} -> "respawn"
           [] args[1] \in {"water", "w"} -> "water"
           [] args[1] \in {"pet", "p"} -> "pet"
           [] args[1] \in {"name", "n"} -> "name"
           [] args[1] \in {"harvest", "h"} -> "harvest"
           [] args[1] \in {"inventory", "i"} -> "inventory"
           [] args[1] \in {"bank", "b"} -> "bank"
           [] args[1] \in {"market", "m"} -> "market"
           [] args[1] \in {"sell", "s"} -> "sell"
           [] OTHER -> "other"

\* int(token): the parsed number, or ValueError
IsInt(token) == token \in {"-1", "0", "1", "2", "9"}
IntOf(token) ==
    CASE token = "-1" -> -1
      [] token = "0" -> 0
      [] token = "1" -> 1
      [] token = "2" -> 2
      [] token = "9" -> 9

\* ":" + token + ":"
Emoji(token) ==
    CASE token = "apple" -> ":apple:"
      [] token = "banana" -> ":banana:"
      [] token = "pear" -> ":pear:"
      [] token = "all" -> ":all:"

\* " ".join(tokens)
Join(tokens) ==
    CASE Len(tokens) = 1 -> tokens[1]
      [] tokens = <<"Old", "Oak">> -> "Old Oak"

\* a command arrives: the bookkeeping of the model, no state of the program
Issue ==
    /\ ticks + cmds < MaxSteps
    /\ cmds' = cmds + 1
    /\ UNCHANGED <<snapshot, origin, ticks, grown, botVars>>

\* __get_inventory: the dict with aid's inventory created if needed
GetInventory(aid) ==
    IF aid \in DOMAIN inventories THEN inventories ELSE inventories @@ (aid :> <<>>)

\* OpenAccount without its membership test: the account is set to zero
ResetAccount(eco, uid) ==
    IF uid \in Tracked(eco)
    THEN [eco EXCEPT ![IndexOf(eco, uid)].bal = 0]
    ELSE Append(eco, [uid |-> uid, bal |-> 0])

\* the account of uid opened at zero if needed
OpenAccount(eco, uid) ==
    IF uid \in Tracked(eco) THEN eco ELSE Append(eco, [uid |-> uid, bal |-> 0])

\* __add_wealth
AddWealth(eco, uid, amount) ==
    LET opened == OpenAccount(eco, uid)
        i == IndexOf(opened, uid)
    IN  [opened EXCEPT ![i].bal = @ + amount]

\* __summary
Summary(m) ==
    /\ reply' = Text
    /\ UNCHANGED <<plantVars, econVars, harvesting, sold>>

\* Respawn without its test of alive: a live plant is reset too
RespawnAlways(m) ==
    /\ name' = FreshAttributes.name
    /\ hydration' = FreshAttributes.hydration
    /\ happiness' = FreshAttributes.happiness
    /\ alive' = FreshAttributes.alive
    /\ death_cause' = FreshAttributes.death_cause
    /\ fruits' = FreshAttributes.fruit
    /\ reply' = Text
    /\ UNCHANGED <<econVars, harvesting, sold>>

\* Respawn that resets the economy with the plant, as __init__ does
RespawnEverything(m) ==
    /\ IF alive
       THEN /\ UNCHANGED <<plantVars, econVars>>
            /\ reply' = Text
       ELSE /\ name' = FreshAttributes.name
            /\ hydration' = FreshAttributes.hydration
            /\ happiness' = FreshAttributes.happiness
            /\ alive' = FreshAttributes.alive
            /\ death_cause' = FreshAttributes.death_cause
            /\ fruits' = FreshAttributes.fruit
            /\ economy' = FreshAttributes.economy
            /\ inventories' = FreshAttributes.inventories
            /\ market' = FreshAttributes.market
            /\ reply' = Text
    /\ UNCHANGED <<harvesting, sold>>

\* __respawn
Respawn(m) ==
    /\ IF alive
       THEN /\ UNCHANGED plantVars
            /\ reply' = Text
       ELSE /\ name' = FreshAttributes.name
            /\ hydration' = FreshAttributes.hydration
            /\ happiness' = FreshAttributes.happiness
            /\ alive' = FreshAttributes.alive
            /\ death_cause' = FreshAttributes.death_cause
            /\ fruits' = FreshAttributes.fruit
            /\ reply' = Text
    /\ UNCHANGED <<econVars, harvesting, sold>>

\* SetName that takes the missing text for an empty name
SetNameBlank(m, args) ==
    /\ IF Len(args) >= 2
       THEN /\ name' = Join(Tail(args))
            /\ reply' = Text
       ELSE /\ name' = ""
            /\ reply' = Text
    /\ UNCHANGED <<hydration, happiness, alive, death_cause, fruits, econVars, harvesting, sold>>

\* __set_name
SetName(m, args) ==
    /\ IF Len(args) >= 2
       THEN /\ name' = Join(Tail(args))
            /\ reply' = Text
       ELSE /\ name' = name
            /\ reply' = Text
    /\ UNCHANGED <<hydration, happiness, alive, death_cause, fruits, econVars, harvesting, sold>>

\* Water that applies the overwatering check of the tick at once
WaterKills(m) ==
    /\ IF alive
       THEN /\ hydration' = hydration + WaterAmount * Scale
            /\ alive' = ~(hydration' > OverwaterLimit * Scale)
            /\ death_cause' = IF alive' THEN death_cause ELSE "overwatering"
            /\ reply' = Text
       ELSE /\ hydration' = hydration
            /\ UNCHANGED <<alive, death_cause>>
            /\ reply' = Text
    /\ UNCHANGED <<name, happiness, fruits, econVars, harvesting, sold>>

\* __water
Water(m) ==
    /\ IF alive
       THEN /\ hydration' = hydration + WaterAmount * Scale
            /\ reply' = Text
       ELSE /\ hydration' = hydration
            /\ reply' = Text
    /\ UNCHANGED <<name, happiness, alive, death_cause, fruits, econVars, harvesting, sold>>

\* Pet without the cap
PetUnclamped(m) ==
    /\ IF alive
       THEN /\ happiness' = happiness + PetAmount * Scale
            /\ reply' = Text
       ELSE /\ happiness' = happiness
            /\ reply' = Text
    /\ UNCHANGED <<name, hydration, alive, death_cause, fruits, econVars, harvesting, sold>>

\* __pet
Pet(m) ==
    /\ IF alive
       THEN /\ happiness' = Min(happiness + PetAmount * Scale, HappinessCap * Scale)
            /\ reply' = Text
       ELSE /\ happiness' = happiness
            /\ reply' = Text
    /\ UNCHANGED <<name, hydration, alive, death_cause, fruits, econVars, harvesting, sold>>

\* HarvestBegin that assigns the fruit to the inventory instead of extending it
HarvestReplace(m) ==
    /\ m \notin harvesting
    /\ IF Len(fruits) > 0
       THEN /\ inventories' = [GetInventory(m) EXCEPT ![m] = fruits]
            /\ harvesting' = harvesting \cup {m}
            /\ reply' = Text
       ELSE /\ inventories' = GetInventory(m)
            /\ harvesting' = harvesting
            /\ reply' = Text
    /\ UNCHANGED <<plantVars, economy, market, sold>>

\* __harvest up to its await: the fruit is copied to the inventory and the
\* coroutine is suspended in ctx.send with the plant's list not yet cleared
HarvestBegin(m) ==
    /\ m \notin harvesting
    /\ IF Len(fruits) > 0
       THEN /\ inventories' = [GetInventory(m) EXCEPT ![m] = @ \o fruits]
            /\ harvesting' = harvesting \cup {m}
            /\ reply' = Text
       ELSE /\ inventories' = GetInventory(m)
            /\ harvesting' = harvesting
            /\ reply' = Text
    /\ UNCHANGED <<plantVars, economy, market, sold>>

\* __harvest after its await: self.__fruits.clear()
HarvestEnd(m) ==
    /\ m \in harvesting
    /\ harvesting' = harvesting \ {m}
    /\ fruits' = <<>>
    /\ UNCHANGED <<name, hydration, happiness, alive, death_cause, econVars,
                   snapshot, origin, reply, ticks, cmds, grown, sold, botVars>>

\* __check_inventory
CheckInventory(m) ==
    /\ inventories' = GetInventory(m)
    /\ reply' = Text
    /\ UNCHANGED <<plantVars, economy, market, harvesting, sold>>

\* InsertDesc that puts x ahead of the equal balances already placed: the sort
\* of an unstable or a reversed ascending sort
InsertDescAhead(sorted, x) ==
    LET ahead == Cardinality({i \in 1..Len(sorted) : sorted[i].bal > x.bal})
    IN  SubSeq(sorted, 1, ahead) \o <<x>> \o SubSeq(sorted, ahead + 1, Len(sorted))

\* sorted(economy, key=balance, reverse=True): stable, so equal balances keep
\* the insertion order of the dict
InsertDesc(sorted, x) ==
    LET ahead == Cardinality({i \in 1..Len(sorted) : sorted[i].bal >= x.bal})
    IN  SubSeq(sorted, 1, ahead) \o <<x>> \o SubSeq(sorted, ahead + 1, Len(sorted))

RECURSIVE SortDesc(_)
SortDesc(eco) ==
    IF eco = <<>> THEN <<>>
    ELSE InsertDesc(SortDesc(SubSeq(eco, 1, Len(eco) - 1)), eco[Len(eco)])

\* sorted_economy.index(aid) + 1
Rank(eco, aid) == IndexOf(SortDesc(eco), aid)

\* the leaderboard's lines: display name and rounded balance, in sorted order
Leaderboard(eco) ==
    LET uids == SortDesc(eco)
    IN  [i \in 1..Len(uids) |-> [uid |-> uids[i].uid, shown |-> Round2(uids[i].bal)]]

\* __check_wealth
CheckWealth(m, args) ==
    /\ economy' = OpenAccount(economy, m)
    /\ reply' = IF Len(args) >= 2
                THEN IF args[2] = "all"
                     THEN [kind |-> "leaderboard", to |-> m, rows |-> Leaderboard(economy')]
                     ELSE Text
                ELSE [kind |-> "rank", to |-> m, shown |-> Round2(Balance(economy', m)),
                      rank |-> Rank(economy', m)]
    /\ UNCHANGED <<plantVars, inventories, market, harvesting, sold>>

\* __check_market
CheckMarket(m) ==
    /\ reply' = [kind |-> "market",
                 prices |-> [fruit \in DOMAIN market |-> Round2(market[fruit])]]
    /\ UNCHANGED <<plantVars, econVars, harvesting, sold>>

\* RemoveFirst taking the last occurrence instead
RemoveLast(inv, fruit) ==
    LET i == CHOOSE k \in 1..Len(inv) :
                 inv[k] = fruit /\ \A j \in (k + 1)..Len(inv) : inv[j] # fruit
    IN  SubSeq(inv, 1, i - 1) \o SubSeq(inv, i + 1, Len(inv))

\* inventory.remove(fruit): the first occurrence goes
RemoveFirst(inv, fruit) ==
    LET i == CHOOSE k \in 1..Len(inv) :
                 inv[k] = fruit /\ \A j \in 1..(k - 1) : inv[j] # fruit
    IN  SubSeq(inv, 1, i - 1) \o SubSeq(inv, i + 1, Len(inv))

\* Depress with the product cut off below the unit instead of rounded
DepressTruncated(price) == (price * SellDepress) \div 10

\* the price after one unit is sold: price * 0.8, rounded to the nearest unit
Depress(price) == (price * SellDepress + 5) \div 10

\* the loop of __sell over inventory_copy from position i on; acc holds the
\* inventory, the market, total_sale and num_sold so far
RECURSIVE SellLoop(_, _, _, _, _, _)
SellLoop(copy, i, acc, sell_all, target_fruit, num) ==
    IF i > Len(copy) THEN acc
    ELSE LET fruit == copy[i]
             sells == sell_all \/ (fruit = target_fruit /\ acc.num_sold < num)
             after == IF sells
                      THEN [inventory |-> RemoveFirst(acc.inventory, fruit),
                            market |-> [acc.market EXCEPT ![fruit] = Depress(@)],
                            total_sale |-> acc.total_sale + acc.market[fruit],
                            num_sold |-> acc.num_sold + 1]
                      ELSE acc
         IN  SellLoop(copy, i + 1, after, sell_all, target_fruit, num)

\* Sale with the credit left for later: the units go and the prices drop, the
\* balance stays
SaleUncredited(m, sell_all, target_fruit, num) ==
    LET opened == GetInventory(m)
        done == SellLoop(opened[m], 1,
                         [inventory |-> opened[m], market |-> market,
                          total_sale |-> 0, num_sold |-> 0],
                         sell_all, target_fruit, num)
    IN  /\ inventories' = [opened EXCEPT ![m] = done.inventory]
        /\ market' = done.market
        /\ sold' = sold + done.num_sold
        /\ economy' = economy
        /\ reply' = Text

\* Sale that quotes the asked kind in the market whether it is a catalog kind
\* or not
SaleQuotesTarget(m, sell_all, target_fruit, num) ==
    LET opened == GetInventory(m)
        done == SellLoop(opened[m], 1,
                         [inventory |-> opened[m], market |-> market,
                          total_sale |-> 0, num_sold |-> 0],
                         sell_all, target_fruit, num)
    IN  /\ inventories' = [opened EXCEPT ![m] = done.inventory]
        /\ market' = IF sell_all \/ target_fruit \in DOMAIN market
                     THEN done.market
                     ELSE done.market @@ (target_fruit :> 0)
        /\ sold' = sold + done.num_sold
        /\ IF done.num_sold = 0
           THEN /\ economy' = economy
                /\ reply' = [kind |-> "unsold", to |-> m]
           ELSE /\ economy' = AddWealth(economy, m, done.total_sale)
                /\ reply' = [kind |-> "sold", to |-> m, num_sold |-> done.num_sold,
                             what |-> IF sell_all THEN "fruit" ELSE target_fruit,
                             total_sale |-> Round2(done.total_sale),
                             balance |-> Round2(Balance(economy', m))]

\* the sale of __sell once the arguments are read
Sale(m, sell_all, target_fruit, num) ==
    LET opened == GetInventory(m)
        done == SellLoop(opened[m], 1,
                         [inventory |-> opened[m], market |-> market,
                          total_sale |-> 0, num_sold |-> 0],
                         sell_all, target_fruit, num)
    IN  /\ inventories' = [opened EXCEPT ![m] = done.inventory]
        /\ market' = done.market
        /\ sold' = sold + done.num_sold
        /\ IF done.num_sold = 0
           THEN /\ economy' = economy
                /\ reply' = [kind |-> "unsold", to |-> m]
           ELSE /\ economy' = AddWealth(economy, m, done.total_sale)
                /\ reply' = [kind |-> "sold", to |-> m, num_sold |-> done.num_sold,
                             what |-> IF sell_all THEN "fruit" ELSE target_fruit,
                             total_sale |-> Round2(done.total_sale),
                             balance |-> Round2(Balance(economy', m))]

\* __sell
Sell(m, args) ==
    /\ IF Len(args) >= 3
       THEN IF IsInt(args[3])
            THEN Sale(m, FALSE, Emoji(args[2]), IntOf(args[3]))
            ELSE /\ inventories' = GetInventory(m)
                 /\ reply' = Text
                 /\ UNCHANGED <<economy, market, sold>>
       ELSE IF Len(args) = 2 /\ args[2] = "all"
            THEN Sale(m, TRUE, None, 0)
            ELSE /\ inventories' = GetInventory(m)
                 /\ reply' = Text
                 /\ UNCHANGED <<economy, market, sold>>
    /\ UNCHANGED <<plantVars, harvesting>>

\* the default case of process_cmd: a reaction on the message
Unknown(m) ==
    /\ reply' = Text
    /\ UNCHANGED <<plantVars, econVars, harvesting, sold>>

\* ------------------------------------------------------------- the system
CmdSummary == \E m \in Members, args \in Inputs :
    Route(args) = "summary" /\ Issue /\ Summary(m)
CmdRespawn == \E m \in Members, args \in Inputs :
    Route(args) = "respawn" /\ Issue /\ Respawn(m)
CmdWater == \E m \in Members, args \in Inputs :
    Route(args) = "water" /\ Issue /\ Water(m)
CmdPet == \E m \in Members, args \in Inputs :
    Route(args) = "pet" /\ Issue /\ Pet(m)
CmdName == \E m \in Members, args \in Inputs :
    Route(args) = "name" /\ Issue /\ SetName(m, args)
CmdHarvest == \E m \in Members, args \in Inputs :
    Route(args) = "harvest" /\ Issue /\ HarvestBegin(m)
CmdInventory == \E m \in Members, args \in Inputs :
    Route(args) = "inventory" /\ Issue /\ CheckInventory(m)
CmdBank == \E m \in Members, args \in Inputs :
    Route(args) = "bank" /\ Issue /\ CheckWealth(m, args)
CmdMarket == \E m \in Members, args \in Inputs :
    Route(args) = "market" /\ Issue /\ CheckMarket(m)
CmdSell == \E m \in Members, args \in Inputs :
    Route(args) = "sell" /\ Issue /\ Sell(m, args)
CmdUnknown == \E m \in Members, args \in Inputs :
    Route(args) = "other" /\ Issue /\ Unknown(m)
HarvestResume == \E m \in Members : HarvestEnd(m)

\* process_cmd for one message of member m
ProcessCmd(m, args) ==
    LET route == Route(args)
    IN  /\ Issue
        /\ CASE route = "summary" -> Summary(m)
             [] route = "respawn" -> Respawn(m)
             [] route = "water" -> Water(m)
             [] route = "pet" -> Pet(m)
             [] route = "name" -> SetName(m, args)
             [] route = "harvest" -> HarvestBegin(m)
             [] route = "inventory" -> CheckInventory(m)
             [] route = "bank" -> CheckWealth(m, args)
             [] route = "market" -> CheckMarket(m)
             [] route = "sell" -> Sell(m, args)
             [] route = "other" -> Unknown(m)

TickStep ==
    /\ ticks + cmds < MaxSteps
    /\ \E u \in RandomDraws, pick \in Catalog, noise \in [Catalog -> NoiseFactors] :
          Tick(u, pick, noise, TRUE)

Next ==
    \/ TickStep
    \/ CmdSummary
    \/ CmdRespawn
    \/ CmdWater
    \/ CmdPet
    \/ CmdName
    \/ CmdHarvest
    \/ CmdInventory
    \/ CmdBank
    \/ CmdMarket
    \/ CmdSell
    \/ CmdUnknown
    \/ HarvestResume

Spec == Init /\ [][Next]_vars

\* ------------------------------------------------------ the laden plant
\* Orchard: the record of a plant nobody has harvested for a long time, one
\* fruit short of the cap, petted to the cap before its last tick.
Orchard ==
    [name |-> "Plant", hydration |-> (StartHydration - 10) * Scale,
     happiness |-> Mul(HappinessCap * Scale, HappinessDecay),
     alive |-> TRUE, death_cause |-> None,
     fruit |-> [i \in 1..(FruitCap - 1) |-> IF i % 2 = 1 THEN ":apple:" ELSE ":banana:"],
     economy |-> <<>>, inventories |-> EmptyDict,
     assets |-> EmptyDict, market |-> FRUIT_MARKET]

InitOrchard == Construct({Orchard}) /\ Resident
SpecOrchard == InitOrchard /\ [][Next]_vars

\* ------------------------------------------------------ the glutted market
\* Glut: the record of a community after a long inflation, with the apple
\* above twice its base price, and after a sell-out of bananas that the last
\* tick has nudged back to 0.01; member 11 has hoarded two apples and twenty
\* bananas since.
Glut ==
    [name |-> "Plant", hydration |-> (StartHydration - 10) * Scale,
     happiness |-> Mul(HappinessCap * Scale, HappinessDecay),
     alive |-> TRUE, death_cause |-> None, fruit |-> <<>>,
     economy |-> <<[uid |-> 11, bal |-> 0]>>,
     inventories |-> (11 :> [i \in 1..22 |-> IF i % 14 = 1 THEN ":apple:" ELSE ":banana:"]),
     assets |-> EmptyDict,
     market |-> (":apple:" :> (2 * Scale + 5 * Nudge) @@ ":banana:" :> Nudge)]

\* the sells and the ticks of the community
InitMarket == Construct({Glut}) /\ Resident
NextMarket == CmdSell \/ TickStep
SpecMarket == InitMarket /\ [][NextMarket]_vars

\* ------------------------------------------------------ the harvests
\* Harvests of several members, suspended at their await and resumed in any
\* order, between the ticks and the sells of the same community.
NextHarvest == CmdHarvest \/ HarvestResume \/ CmdSell \/ TickStep
SpecHarvest == Init /\ [][NextHarvest]_vars

\* ------------------------------------------------------ the restart
\* Reload with the economy of __reset_economy in place of the pickled market
ReloadBaseMarket(rec) ==
    /\ name' = rec.name
    /\ hydration' = rec.hydration
    /\ happiness' = rec.happiness
    /\ alive' = rec.alive
    /\ death_cause' = rec.death_cause
    /\ fruits' = rec.fruit
    /\ economy' = rec.economy
    /\ inventories' = rec.inventories
    /\ market' = FRUIT_MARKET

\* __load in a manager built while the program runs: every attribute from the
\* pickled record
Reload(rec) ==
    /\ name' = rec.name
    /\ hydration' = rec.hydration
    /\ happiness' = rec.happiness
    /\ alive' = rec.alive
    /\ death_cause' = rec.death_cause
    /\ fruits' = rec.fruit
    /\ economy' = rec.economy
    /\ inventories' = rec.inventories
    /\ market' = rec.market

\* The process ends and is started again: the memory of the old manager and
\* its suspended handlers are gone, and __init__ builds the new manager from
\* the file the last tick wrote, or fresh when no tick has written one.
Restart ==
    /\ IF snapshot = NoFile
       THEN /\ origin' = "fresh"
            /\ Reload(FreshAttributes)
       ELSE /\ origin' = "loaded"
            /\ Reload(snapshot)
    /\ harvesting' = {}
    /\ reply' = NoReply
    /\ grown' = Tokens(fruits', inventories')
    /\ sold' = 0
    /\ UNCHANGED <<snapshot, ticks, cmds, botVars>>

NextRestart == Next \/ Restart
SpecRestart == Init /\ [][NextRestart]_vars

\* ------------------------------------------------------ the pure-decay run
\* A community, fresh or loaded, gets one water, then one pet, then only ticks.
\* No draw of the tick reaches the hydration: the noise is held at the neutral
\* draw so that a run of MaxDecayTicks ticks stays finite.
DecayWater ==
    /\ ticks = 0 /\ cmds = 0
    /\ cmds' = cmds + 1
    /\ UNCHANGED <<snapshot, origin, ticks, grown, botVars>>
    /\ \E m \in Members : Water(m)

DecayPet ==
    /\ ticks = 0 /\ cmds = 1
    /\ cmds' = cmds + 1
    /\ UNCHANGED <<snapshot, origin, ticks, grown, botVars>>
    /\ \E m \in Members : Pet(m)

DecayTick ==
    /\ cmds = 2
    /\ ticks < MaxDecayTicks
    /\ \E u \in RandomDraws, pick \in Catalog, noise \in [Catalog -> NeutralNoise] :
          Tick(u, pick, noise, Len(fruits) < MaxDecayFruits)

InitDecay == Construct({Flood}) /\ Resident
NextDecay == DecayWater \/ DecayPet \/ DecayTick
SpecDecay == InitDecay /\ [][NextDecay]_vars

\* ------------------------------------------------------ the leaderboard
\* Communities loaded with every book of up to three accounts over a few
\* balances, in every insertion order; the members query the bank.
BankBalances == {0, 10 * Scale, 30 * Scale, 50 * Scale}

Books ==
    {eco \in UNION {[1..n -> [uid : BankMembers, bal : BankBalances]] : n \in 0..3} :
        \A i, j \in 1..Len(eco) : eco[i].uid = eco[j].uid => i = j}

BankStates == {[FreshAttributes EXCEPT !.economy = eco] : eco \in Books}

BankQuery ==
    /\ cmds < MaxBankCmds
    /\ cmds' = cmds + 1
    /\ UNCHANGED <<snapshot, origin, ticks, grown, botVars>>
    /\ \E m \in BankMembers, args \in Inputs :
          Route(args) = "bank" /\ CheckWealth(m, args)

InitBank == Construct(BankStates) /\ Resident
NextBank == BankQuery
SpecBank == InitBank /\ [][NextBank]_vars

\* ------------------------------------------------------ the bot's startup
\* The bot with several communities.  A manager is here its identity (the
\* ready event that built it) and its tick loop; what a manager does with its
\* plant is the matter of Spec.  A pickle file is absent, valid, or invalid
\* (it does not unpickle to the attributes __load reads).
RecordStates == {"absent", "valid", "invalid"}

\* the orders in which DISCORD_GUILD may list the communities
Orders ==
    {order \in [1..Cardinality(Communities) -> Communities] :
        \A i, j \in DOMAIN order : order[i] = order[j] => i = j}

\* PlantManager(gid) returns a manager: __init__ catches FileNotFoundError
\* only, every other error of __load leaves the constructor
Constructs(gid) == records[gid] # "invalid"

\* the loop of on_ready from position i of guild_ids on, building managers
\* numbered born; acc holds plant_managers and the running tick loops.  An
\* error of the constructor leaves the handler, and with it the loop.
RECURSIVE ReadyLoop(_, _, _)
ReadyLoop(i, acc, born) ==
    IF i > Len(guild_ids) THEN acc
    ELSE LET gid == guild_ids[i]
         IN  IF Constructs(gid)
             THEN ReadyLoop(i + 1,
                            [managers |-> (gid :> born) @@ acc.managers,
                             loops |-> acc.loops \cup {[gid |-> gid, manager |-> born]}],
                            born)
             ELSE acc

\* on_ready: it has no await, so one ready event is one step
OnReady ==
    /\ readies < MaxReadies
    /\ readies' = readies + 1
    /\ LET done == ReadyLoop(1, [managers |-> plant_managers, loops |-> loops],
                             readies + 1)
       IN  /\ plant_managers' = done.managers
           /\ loops' = done.loops
    /\ UNCHANGED <<guild_ids, records, unserved>>
    /\ UNCHANGED <<plantVars, econVars, snapshot, origin, harvesting, reply,
                   ticks, cmds, grown, sold>>

\* the plant command of the bot in community gid: plant_managers[gid] raises
\* KeyError when the community has no manager
PlantCommand ==
    /\ ticks + cmds < MaxSteps
    /\ cmds' = cmds + 1
    /\ \E gid \in Communities :
          unserved' = IF gid \in DOMAIN plant_managers
                      THEN unserved \ {gid}
                      ELSE unserved \cup {gid}
    /\ UNCHANGED <<guild_ids, records, plant_managers, loops, readies>>
    /\ UNCHANGED <<plantVars, econVars, snapshot, origin, harvesting, reply,
                   ticks, grown, sold>>

\* one iteration of a running tick loop: __dump overwrites the community's file
LoopTick ==
    /\ ticks + cmds < MaxSteps
    /\ ticks' = ticks + 1
    /\ \E loop \in loops : records' = [records EXCEPT ![loop.gid] = "valid"]
    /\ UNCHANGED <<guild_ids, plant_managers, loops, readies, unserved>>
    /\ UNCHANGED <<plantVars, econVars, snapshot, origin, harvesting, reply,
                   cmds, grown, sold>>

InitBoot ==
    /\ Construct({})
    /\ guild_ids \in Orders
    /\ records \in [Communities -> RecordStates]
    /\ plant_managers = EmptyDict
    /\ loops = {}
    /\ readies = 0
    /\ unserved = {}

NextBoot == OnReady \/ PlantCommand \/ LoopTick
SpecBoot == InitBoot /\ [][NextBoot]_vars

\* ------------------------------------------------------------- claims
\* a step of the tick loop, and a step in which a command arrives
IsTick == ticks' = ticks + 1
IsCommand == cmds' = cmds + 1

\* C1, every tick of a live plant: the hydration drops by exactly 0.1, and the
\* plant is dead after the tick exactly when the new hydration is above 200
\* (cause "overwatering") or below 0 (cause "underwatering")
C1_TickRule ==
    (IsTick /\ alive) =>
        /\ hydration' = hydration - Scale \div 10
        /\ alive' = (hydration' >= 0 /\ hydration' <= 200 * Scale)
        /\ hydration' > 200 * Scale => death_cause' = "overwatering"
        /\ hydration' < 0 => death_cause' = "underwatering"
        /\ alive' => death_cause' = death_cause

\* C1, the run from a fresh community after one water and one pet: alive with
\* hydration 110 - 0.1 * ticks through tick 1100, dead of underwatering from
\* tick 1101 on, so dead of underwatering after 2001 ticks
C1_FreshRun ==
    (origin = "fresh" /\ cmds = 2) =>
        /\ ticks <= 1100 => (alive /\ hydration = 110 * Scale - ticks * (Scale \div 10))
        /\ ticks > 1100 => (~alive /\ death_cause = "underwatering")
        /\ ticks = 2001 => (~alive /\ death_cause = "underwatering")

\* C1: while alive every tick lowers hydration by exactly 0.1, death comes at
\* the first tick that leaves hydration above 200 or below 0 and at no earlier
\* one, and 2001 ticks after one water and one pet on a fresh community leave
\* the plant dead of underwatering
C1_DecayAndDeath == [][C1_TickRule]_vars /\ [](C1_FreshRun)

\* C1 witness: the fresh run has made its 2001 ticks and the plant is dead
C1_Witness ==
    /\ origin = "fresh" /\ cmds = 2 /\ ticks = 2001
    /\ ~alive /\ death_cause = "underwatering" /\ hydration = 0 - Scale \div 10

\* C2: a respawn of a dead plant sets every plant field to its default (name
\* "Plant", hydration 100, happiness 50, alive, no death cause, no fruit) and
\* leaves every balance, every inventory and every price as it was
C2_RespawnResetsPlantOnly ==
    [][(IsCommand /\ ~alive /\ (alive' \/ CmdRespawn)) =>
          /\ name' = "Plant"
          /\ hydration' = 100 * Scale
          /\ happiness' = 50 * Scale
          /\ alive'
          /\ death_cause' = None
          /\ fruits' = <<>>
          /\ economy' = economy
          /\ inventories' = inventories
          /\ market' = market]_vars

\* C2 witness: the dead plant loaded with a balance, an inventory and a
\* depressed apple price has been respawned
C2_Witness ==
    /\ origin = "loaded" /\ cmds = 1 /\ ticks = 0
    /\ alive /\ name = "Plant" /\ hydration = 100 * Scale /\ fruits = <<>>
    /\ economy = Grave.economy /\ inventories = Grave.inventories
    /\ market = Grave.market /\ market[":apple:"] < Scale

\* C3: while the plant is dead, hydration, happiness and the fruit list are
\* unchanged by every tick and by every command but respawn
C3_DeadPlantFrozen ==
    [][(~alive /\ ~alive') => UNCHANGED <<hydration, happiness, fruits>>]_vars

\* what member m holds and owns, nothing when m has no inventory or account yet
Held(inv, m) == IF m \in DOMAIN inv THEN inv[m] ELSE <<>>
Funds(eco, m) == IF m \in Tracked(eco) THEN Balance(eco, m) ELSE 0
Count(seq, x) == Cardinality({i \in 1..Len(seq) : seq[i] = x})

\* seq without its first k occurrences of x
RECURSIVE DropFirst(_, _, _)
DropFirst(seq, x, k) ==
    IF k = 0 \/ seq = <<>> THEN seq
    ELSE IF Head(seq) = x THEN DropFirst(Tail(seq), x, k - 1)
         ELSE <<Head(seq)>> \o DropFirst(Tail(seq), x, k)

\* the units sold one after the other: each is credited at the price its kind
\* has at that moment, and that price is then multiplied by 0.8
RECURSIVE Walk(_, _, _)
Walk(units, prices, credit) ==
    IF units = <<>> THEN [prices |-> prices, credit |-> credit]
    ELSE Walk(Tail(units),
              [prices EXCEPT ![Head(units)] = (@ * 8 + 5) \div 10],
              credit + prices[Head(units)])

\* C4, one sell by member m with arguments args: K units leave the inventory
\* in inventory order, each credited at its kind's current price, which then
\* drops to 0.8 of itself; nothing else is touched
C4_SellRule(m, args) ==
    LET old == Held(inventories, m)
        new == Held(inventories', m)
        byKind == Len(args) >= 3 /\ IsInt(args[3])
        kind == Emoji(args[2])
        K == IF byKind
             THEN IF IntOf(args[3]) <= 0 THEN 0 ELSE Min(IntOf(args[3]), Count(old, kind))
             ELSE Len(old)
        units == IF byKind THEN [i \in 1..K |-> kind] ELSE old
        sale == Walk(units, market, 0)
    IN  ((byKind \/ args = <<args[1], "all">>) /\ K >= 1) =>
          /\ new = IF byKind THEN DropFirst(old, kind, K) ELSE <<>>
          /\ Len(new) = Len(old) - K
          /\ \A other \in DOMAIN inventories \ {m} : inventories'[other] = inventories[other]
          /\ market' = sale.prices
          /\ Funds(economy', m) = Funds(economy, m) + sale.credit
          /\ \A other \in Tracked(economy) \ {m} : Funds(economy', other) = Funds(economy, other)
          /\ byKind =>
               /\ \A fruit \in Catalog \ {kind} : market'[fruit] = market[fruit]
               /\ \A fruit \in Catalog \ {kind} : Count(new, fruit) = Count(old, fruit)
               /\ Count(new, kind) = Count(old, kind) - K
               /\ \A i \in 1..K :
                    Walk([j \in 1..i |-> kind], market, 0).prices[kind]
                      < Walk([j \in 1..(i - 1) |-> kind], market, 0).prices[kind]
          /\ (Count(old, ":apple:") = 3 /\ market[":apple:"] = Scale
                /\ Tail(args) = <<"apple", "2">>) =>
               /\ sale.credit = Scale + (8 * Scale) \div 10
               /\ Count(new, ":apple:") = 1
               /\ market'[":apple:"] = (64 * Scale) \div 100

\* C4: both sell forms process the units in inventory order, credit each sold
\* unit at its kind's current price and then multiply that price by 0.8, so
\* K = min(N, held) >= 1 units of one kind at price p earn p, 0.8p, 0.64p, ...
\* (strictly decreasing), leave the price at p * 0.8^K, take exactly K units
\* of that kind and touch no other kind (3 apples at 1.0, sell apple 2:
\* revenue 1.8, one apple left, price 0.64)
C4_SellPricing ==
    [][\A m \in Members, args \in Inputs :
          (Route(args) = "sell" /\ Issue /\ Sell(m, args)) => C4_SellRule(m, args)]_vars

\* C4 witness: member 11, holding three apples at the base price, has sold two
C4_Witness ==
    /\ name = "Fern" /\ cmds = 1 /\ ticks = 0
    /\ 11 \in DOMAIN inventories /\ inventories[11] = <<":banana:", ":apple:">>
    /\ market[":apple:"] = (64 * Scale) \div 100 /\ market[":banana:"] = Scale \div 2
    /\ Funds(economy, 11) = Scale + (8 * Scale) \div 10
    /\ reply.kind = "sold" /\ reply.num_sold = 2

\* the price p after n units were sold, and what the n units earned
RECURSIVE PriceAfter(_, _)
PriceAfter(p, n) == IF n = 0 THEN p ELSE PriceAfter((p * 8 + 5) \div 10, n - 1)
RECURSIVE Proceeds(_, _)
Proceeds(p, n) == IF n = 0 THEN 0 ELSE p + Proceeds((p * 8 + 5) \div 10, n - 1)
RECURSIVE Revenue(_, _, _)
Revenue(kinds, m, prices) ==
    IF kinds = {} THEN 0
    ELSE LET kind == CHOOSE k \in kinds : TRUE
             units == Count(Held(inventories, m), kind) - Count(Held(inventories', m), kind)
         IN  Proceeds(prices[kind], units) + Revenue(kinds \ {kind}, m, prices)

\* C5, one step seen from member m: units leave m's inventory only in a step
\* that also credits their whole revenue to m's balance and depresses the
\* prices, and a balance changes in no other step
C5_NoHalfSale(m) ==
    LET removed == Len(Held(inventories, m)) - Len(Held(inventories', m))
    IN  /\ removed > 0 =>
             /\ m \in Tracked(economy')
             /\ Funds(economy', m) = Funds(economy, m) + Revenue(Catalog, m, market)
             /\ Funds(economy', m) > Funds(economy, m)
             /\ \A kind \in Catalog :
                  market'[kind] = PriceAfter(market[kind],
                      Count(Held(inventories, m), kind) - Count(Held(inventories', m), kind))
        /\ Funds(economy', m) # Funds(economy, m) => removed > 0

\* C5: a sell removes the units, depresses the prices and credits the balance
\* in one indivisible step; no tick and no other command sees the units gone
\* and the balance not yet credited
C5_SellAtomic == [][\A m \in Members : C5_NoHalfSale(m)]_vars

\* C5 witness: a tick has written its snapshot after member 11's sale, and the
\* snapshot holds the shrunken inventory together with the credited balance
C5_Witness ==
    /\ snapshot # NoFile /\ ticks = 1 /\ cmds = 1 /\ name = "Fern"
    /\ snapshot.inventories = (11 :> <<":banana:", ":apple:">>)
    /\ Funds(snapshot.economy, 11) = Scale + (8 * Scale) \div 10

\* a command step that answers with a market listing or with a bank answer
\* (the caller's rank, or the leaderboard)
IsMarketQuery == IsCommand /\ reply'.kind = "market"
IsBankQuery == IsCommand /\ reply'.kind \in {"rank", "leaderboard"}

\* C6 as stated: a market query or a bank query, also by a member with no
\* tracked balance, leaves plant, prices, balances and inventories identical
C6_QueriesChangeNothing ==
    [][(IsMarketQuery \/ IsBankQuery) => UNCHANGED <<plantVars, econVars>>]_vars

\* C6 amended: a market query changes nothing; a bank query changes nothing
\* but the balances mapping, where it leaves every tracked balance and the
\* order as they were and opens the caller's account at zero, after the
\* others, when the caller had none; the answer is the one the state after the
\* query gives, and a caller already tracked changes nothing at all, so the
\* query repeated gives the same answer and the same state
C6_QueriesOnlyOpenAccount ==
    [][/\ IsMarketQuery =>
            /\ UNCHANGED <<plantVars, econVars>>
            /\ reply'.prices = [fruit \in Catalog |-> Round2(market[fruit])]
       /\ IsBankQuery =>
            /\ UNCHANGED <<plantVars, inventories, market>>
            /\ economy' = IF reply'.to \in Tracked(economy) THEN economy
                          ELSE economy \o <<[uid |-> reply'.to, bal |-> 0]>>
            /\ reply'.to \in Tracked(economy')
            /\ reply'.kind = "rank" => reply'.shown = Round2(Funds(economy', reply'.to))
            /\ reply'.kind = "leaderboard" => Len(reply'.rows) = Len(economy')]_vars

\* C6 witness: member 11, with no account in the fresh community, has asked for
\* its balance, and the account now exists at zero
C6_Witness ==
    /\ origin = "fresh" /\ cmds = 1
    /\ reply.kind = "rank" /\ reply.to = 11 /\ reply.shown = 0
    /\ economy = <<[uid |-> 11, bal |-> 0]>>

\* member a comes before member b on the leaderboard of eco: a higher balance,
\* or the same balance and an account opened earlier
Outranks(eco, a, b) ==
    \/ Funds(eco, a) > Funds(eco, b)
    \/ Funds(eco, a) = Funds(eco, b) /\ IndexOf(eco, a) < IndexOf(eco, b)

C7_TieWitness ==
    /\ reply.kind = "rank" /\ reply.rank = 2 /\ Len(economy) = 2
    /\ economy[1].bal = economy[2].bal /\ economy[2].uid = reply.to

\* the price a tick may give a fruit: 0.01 up when below the base price, 0.01
\* down when above twice the base price, then one factor of the noise band
TickPrices(fruit, price) ==
    LET pushed == IF price < BasePrice(fruit) THEN price + Scale \div 100 ELSE price
        pulled == IF pushed > 2 * BasePrice(fruit) THEN pushed - Scale \div 100 ELSE pushed
    IN  {Mul(pulled, factor) : factor \in NoiseFactors}

\* C8: every tick, on a live plant or a dead one, reprices every fruit of the
\* market exactly once and then writes the snapshot, which so holds the new
\* prices and the whole state; on a dead plant it changes nothing but the
\* prices (and the snapshot)
C8_TickRepricesAndSaves ==
    [][IsTick =>
          /\ DOMAIN market' = DOMAIN market
          /\ \A fruit \in DOMAIN market : market'[fruit] \in TickPrices(fruit, market[fruit])
          /\ snapshot' = [name |-> name', hydration |-> hydration',
                          happiness |-> happiness', alive |-> alive',
                          death_cause |-> death_cause', fruit |-> fruits',
                          economy |-> economy', inventories |-> inventories',
                          assets |-> <<>>, market |-> market']
          /\ ~alive => UNCHANGED <<plantVars, economy, inventories, harvesting, reply>>]_vars

\* C8 witness: a tick has run on the dead plant: the prices moved, the snapshot
\* holds them, and the plant is as it was loaded
C8_Witness ==
    /\ ~alive /\ ticks = 1 /\ cmds = 0 /\ name = "Moss"
    /\ market # Grave.market /\ snapshot.market = market
    /\ hydration = Grave.hydration /\ happiness = Grave.happiness /\ fruits = Grave.fruit

\* C9: a harvest of a plant with fruit appends the whole fruit list, in order,
\* to the end of the caller's inventory (created if there was none) and, when
\* it resumes after its message, leaves the fruit list empty; it changes no
\* other inventory, no balance and no price.  A harvest of a plant with no
\* fruit changes neither the fruit list nor any existing inventory.
C9_HarvestMovesFruit ==
    [][/\ \A m \in Members :
            (IsCommand /\ (HarvestBegin(m) \/ m \in harvesting' \ harvesting)) =>
               /\ DOMAIN inventories' = DOMAIN inventories \cup {m}
               /\ inventories'[m] = Held(inventories, m) \o fruits
               /\ \A other \in DOMAIN inventories \ {m} :
                     inventories'[other] = inventories[other]
               /\ UNCHANGED <<economy, market, fruits>>
               /\ m \in harvesting' <=> fruits # <<>>
       /\ \A m \in Members :
            (HarvestEnd(m) \/ m \in harvesting \ harvesting') =>
               /\ fruits' = <<>>
               /\ UNCHANGED <<economy, market, inventories>>]_vars

\* C9 witness: member 11 has harvested the plant's banana onto the end of the
\* four fruits it held, and the plant's list is empty
C9_Witness ==
    /\ name = "Fern" /\ cmds = 1 /\ ticks = 0 /\ harvesting = {}
    /\ fruits = <<>>
    /\ inventories = (11 :> <<":apple:", ":banana:", ":apple:", ":apple:", ":banana:">>)
    /\ economy = Drought.economy /\ market = Drought.market

\* C10, the steps: a water on a live plant adds exactly 10 to the hydration,
\* with no clamp and without touching alive; a pet on a live plant sets the
\* happiness to min(happiness + 10, 100); neither changes anything else
C10_WaterPetRule ==
    /\ ((CmdWater \/ (IsCommand /\ hydration' > hydration)) /\ alive) =>
          /\ hydration' = hydration + 10 * Scale
          /\ UNCHANGED <<name, happiness, alive, death_cause, fruits, econVars>>
    /\ ((CmdPet \/ (IsCommand /\ happiness' > happiness)) /\ alive) =>
          /\ happiness' = Min(happiness + 10 * Scale, 100 * Scale)
          /\ UNCHANGED <<name, hydration, alive, death_cause, fruits, econVars>>

\* C10, the fresh community: one water gives hydration 110 with the plant
\* alive, one pet gives happiness 60
C10_FreshScenario ==
    (origin = "fresh" /\ ticks = 0 /\ cmds = 1) =>
        /\ hydration \in {100 * Scale, 110 * Scale}
        /\ happiness \in {50 * Scale, 60 * Scale}
        /\ hydration = 110 * Scale => happiness = 50 * Scale
        /\ alive

\* C10: on a live plant water adds exactly 10 to hydration, unclamped and
\* without changing alive, pet sets happiness to min(happiness + 10, 100),
\* neither changes another plant or economy field, and happiness never
\* exceeds 100
C10_WaterAndPet ==
    /\ [][C10_WaterPetRule]_vars
    /\ [](happiness <= 100 * Scale)
    /\ [](C10_FreshScenario)

\* C10 witness: the fresh community has been watered and petted once each
C10_Witness ==
    /\ origin = "fresh" /\ ticks = 0 /\ cmds = 2 /\ alive
    /\ hydration = 110 * Scale /\ happiness = 60 * Scale

\* C10, the cap reached: a pet on the plant loaded at happiness 99.25 gives 100
C10_CapWitness ==
    /\ name = "Fern" /\ alive /\ cmds = 1 /\ ticks = 0
    /\ happiness = 100 * Scale /\ hydration = Drought.hydration

\* the two forms of sell the handler accepts
SellByKind(args) == Len(args) >= 3 /\ IsInt(args[3])
SellAll(args) == Len(args) = 2 /\ args[2] = "all"

\* the sell messages of an accepted form
SellInputs == {args \in Inputs : Route(args) = "sell" /\ (SellByKind(args) \/ SellAll(args))}

\* a sell of an accepted form for which member m has no eligible unit: the kind
\* is not held, the count is zero or negative, or there is nothing to sell
ZeroEligible(m, args) ==
    LET held == Held(inventories, m)
    IN  IF SellByKind(args)
        THEN \/ IntOf(args[3]) <= 0
             \/ \A i \in 1..Len(held) : held[i] # Emoji(args[2])
        ELSE held = <<>>

\* a step in which member m's command breaks a domain rule: a water or a pet
\* on a dead plant, a respawn on a live plant
Rejected(m) ==
    \/ ~alive /\ Issue /\ (Water(m) \/ Pet(m))
    \/ alive /\ Issue /\ Respawn(m)

\* a step in which member m's sell with arguments args finds no eligible unit
SellsNothing(m, args) == ZeroEligible(m, args) /\ Issue /\ Sell(m, args)

\* the inventories mapping with an empty inventory for m when m had none
WithInventory(inv, m) == IF m \in DOMAIN inv THEN inv ELSE inv @@ (m :> <<>>)

\* C11 as stated: a command that violates a domain rule, by any member, leaves
\* plant fields, prices, balances and inventories identical
C11_ViolationsChangeNothing ==
    [][IsCommand => \A m \in Members :
          /\ Rejected(m) => UNCHANGED <<plantVars, econVars>>
          /\ \A args \in SellInputs :
                SellsNothing(m, args) => UNCHANGED <<plantVars, econVars>>]_vars

\* C11 amended: water or pet on a dead plant and respawn on a live plant
\* change nothing; a sell with no eligible unit leaves plant fields, prices,
\* balances and every existing inventory unchanged, sells nothing, and only
\* gives the caller an empty inventory when the caller had none
C11_ViolationsOnlyOpenInventory ==
    [][IsCommand => \A m \in Members :
          /\ Rejected(m) => UNCHANGED <<plantVars, econVars, sold>>
          /\ \A args \in SellInputs :
                SellsNothing(m, args) =>
                    /\ UNCHANGED <<plantVars, economy, market, sold>>
                    /\ inventories' = WithInventory(inventories, m)]_vars

\* C11 witness: member 22, never referenced in the loaded community, has tried
\* to sell a kind it does not hold and has got an empty inventory for it
C11_Witness ==
    /\ origin = "loaded" /\ name = "Plant" /\ cmds = 1 /\ ticks = 0
    /\ reply = [kind |-> "unsold", to |-> 22]
    /\ inventories = (22 :> <<>>)
    /\ economy = <<>> /\ market = Flood.market /\ hydration = Flood.hydration

\* a command with an input error: a sell of neither accepted form, a name with
\* no text, a bank with a subcommand other than all, an unknown keyword
InputError(args) ==
    \/ Route(args) = "sell" /\ ~SellByKind(args) /\ (Len(args) >= 3 \/ ~SellAll(args))
    \/ Route(args) = "name" /\ Len(args) < 2
    \/ Route(args) = "bank" /\ Len(args) >= 2 /\ args[2] # "all"
    \/ Route(args) = "other"

\* the messages with an input error
BadInputs == {args \in Inputs : InputError(args)}

\* C12 as stated: a command with an input error, by any member, leaves plant
\* fields, prices, balances and inventories identical
C12_InputErrorsChangeNothing ==
    [][IsCommand => \A m \in Members, args \in BadInputs :
          ProcessCmd(m, args) =>
              UNCHANGED <<plantVars, econVars>>]_vars

\* C12 amended: a name with no text and an unknown keyword change nothing; a
\* malformed sell changes nothing but gives the caller an empty inventory when
\* the caller had none; a bank with a wrong subcommand changes nothing but
\* opens the caller's balance at zero when the caller had none
C12_InputErrorsOnlyOpenEntries ==
    [][IsCommand => \A m \in Members, args \in BadInputs :
          ProcessCmd(m, args) =>
              /\ UNCHANGED <<plantVars, market, sold>>
              /\ inventories' = IF Route(args) = "sell"
                                THEN WithInventory(inventories, m)
                                ELSE inventories
              /\ economy' = IF Route(args) = "bank" /\ m \notin Tracked(economy)
                            THEN economy \o <<[uid |-> m, bal |-> 0]>>
                            ELSE economy]_vars

\* C12 witness: member 11, never referenced in the fresh community, has sent a
\* bank with a wrong subcommand and has a balance of zero for it
C12_Witness ==
    /\ origin = "fresh" /\ cmds = 1 /\ ticks = 0 /\ reply = Text
    /\ economy = <<[uid |-> 11, bal |-> 0]>>
    /\ inventories = EmptyDict /\ name = "Plant"

\* the tick loops that run for community gid
LoopsOf(gid) == {loop \in loops : loop.gid = gid}

\* C13: once the ready handler has run, every configured community whose
\* record is not structurally invalid, wherever it stands in the startup
\* order, has a manager with a running tick loop and gets its commands
\* processed; the community with the invalid record alone has none
C13_InvalidRecordIsLocal ==
    readies >= 1 =>
        \A gid \in Communities :
            IF records[gid] = "invalid"
            THEN gid \notin DOMAIN plant_managers
            ELSE /\ gid \in DOMAIN plant_managers
                 /\ [gid |-> gid, manager |-> plant_managers[gid]] \in loops
                 /\ gid \notin unserved

\* C20: a community never has two tick loops running, and the manager a
\* community has is never replaced by another, whatever ready events and
\* commands follow
C20_OneManagerPerCommunity ==
    /\ [](\A gid \in Communities : Cardinality(LoopsOf(gid)) <= 1)
    /\ [][\A gid \in DOMAIN plant_managers :
            /\ gid \in DOMAIN plant_managers'
            /\ plant_managers'[gid] = plant_managers[gid]]_vars

\* the complete plant and economy state after a step, as a record
StateAfter ==
    [name |-> name', hydration |-> hydration', happiness |-> happiness',
     alive |-> alive', death_cause |-> death_cause', fruit |-> fruits',
     economy |-> economy', inventories |-> inventories', assets |-> <<>>,
     market |-> market']

\* the defaults of a community with no snapshot
Defaults ==
    [name |-> "Plant", hydration |-> 100 * Scale, happiness |-> 50 * Scale,
     alive |-> TRUE, death_cause |-> None, fruit |-> <<>>,
     economy |-> <<>>, inventories |-> <<>>, assets |-> <<>>,
     market |-> [fruit \in Catalog |-> BasePrice(fruit)]]

\* C14: the snapshot is the complete state at the end of the most recent tick
\* (a tick writes it, no other step touches it), and a manager created
\* afterwards starts from the defaults when there is no snapshot and otherwise
\* in exactly the state the snapshot records, field by field
C14_LoadsLastSnapshot ==
    /\ [][IF IsTick THEN snapshot' = StateAfter ELSE snapshot' = snapshot]_vars
    /\ [][Restart => StateAfter = IF snapshot = NoFile THEN Defaults ELSE snapshot]_vars
    /\ []((origin = "fresh" /\ ticks = 0 /\ cmds = 0) => Attributes = Defaults)

\* C14 witness: a manager created after a tick and a command of the old one is
\* in the state the tick's snapshot records, repriced market included
C14_Witness ==
    /\ origin = "loaded" /\ reply = NoReply /\ ticks = 1 /\ cmds = 1
    /\ snapshot # NoFile /\ Attributes = snapshot
    /\ snapshot.market # FRUIT_MARKET
    /\ name = "Plant" /\ hydration = Flood.hydration - HydrationLoss

\* C15: the keys of the market are exactly the catalog's kinds in every
\* reachable state, after any sell, tick, harvest or respawn, and every fruit
\* token on the plant or in an inventory is a kind of the catalog
C15_MarketKeysAreCatalog ==
    /\ DOMAIN market = Catalog
    /\ \A i \in 1..Len(fruits) : fruits[i] \in Catalog
    /\ \A m \in DOMAIN inventories :
          \A i \in 1..Len(inventories[m]) : inventories[m][i] \in Catalog

\* C15 witness: a member has asked to sell a kind that is not in the catalog,
\* a tick has repriced the market after it, and the market has its two keys
C15_Witness ==
    /\ reply = [kind |-> "unsold", to |-> 22] /\ ticks = 1 /\ cmds = 1
    /\ name = "Fern" /\ 22 \in DOMAIN inventories
    /\ DOMAIN market = {":apple:", ":banana:"} /\ market # FRUIT_MARKET
    /\ Len(fruits) = 2

\* C16: the tick in which the plant dies skips the rest of the tick for the
\* plant: happiness and the fruit list are after it what they were before it
C16_DeathTickSkipsRest ==
    [][(IsTick /\ alive /\ ~alive') => UNCHANGED <<happiness, fruits>>]_vars

\* C17: alive turns false only in a tick (one that leaves hydration above 200
\* or below 0), never in a command, not even in a water that raises hydration
\* above 200; it turns true only in a respawn command; and a respawn of a live
\* plant changes no field
C17_AliveTransitions ==
    [][/\ (alive /\ ~alive') =>
            /\ IsTick /\ ~IsCommand
            /\ hydration' > 200 * Scale \/ hydration' < 0
       /\ (~alive /\ alive') => (IsCommand /\ ~IsTick /\ CmdRespawn)
       /\ (IsCommand /\ hydration' > 200 * Scale) => alive' = alive
       /\ (CmdRespawn /\ alive) => UNCHANGED <<plantVars, econVars>>]_vars

\* C17 witness: a water has raised the hydration of the live plant above 200
\* and the plant is still alive
C17_Witness ==
    /\ alive /\ hydration = 209 * Scale /\ cmds = 1 /\ ticks = 0
    /\ death_cause = None /\ name = "Plant"

\* C17, the death after it: the next tick has found the hydration above 200
C17_DeathWitness ==
    /\ ~alive /\ death_cause = "overwatering" /\ cmds = 1 /\ ticks = 1
    /\ name = "Plant" /\ hydration = 209 * Scale - Scale \div 10

\* C18: whatever the interleaving of harvests, ticks and sells, once no
\* harvest is in progress every fruit the plant has generated is on the plant,
\* in one inventory, or sold: the tokens on the plant and in the inventories,
\* with the units sold, are as many as the fruit generated, none credited
\* twice and none discarded
C18_FruitConserved ==
    harvesting = {} => Tokens(fruits, inventories) + sold = grown

\* C19: the snapshot a tick writes holds no half-applied harvest: the tokens
\* it records on the plant and in the inventories, with the units sold, are as
\* many as the fruit generated, so no fruit is in it both on the plant and in
\* the harvester's inventory
C19_SnapshotNotMidHarvest ==
    [][IsTick => Tokens(snapshot'.fruit, snapshot'.inventories) + sold' = grown']_vars

\* C21: the plant never carries more than 20 fruit; the fruit list grows only
\* in a tick, by one token appended at its end, and only when the plant is
\* alive when the tick starts and carries fewer than 20; no command adds fruit
\* to the plant
C21_FruitCapped ==
    /\ [](Len(fruits) <= 20)
    /\ [][Len(fruits') > Len(fruits) =>
            /\ IsTick /\ ~IsCommand
            /\ alive
            /\ Len(fruits) < 20
            /\ Len(fruits') = Len(fruits) + 1
            /\ SubSeq(fruits', 1, Len(fruits)) = fruits
            /\ fruits'[Len(fruits')] \in Catalog]_vars

\* C21 witness: the plant loaded with 19 fruit has grown its twentieth in one
\* tick and has gone through a second tick with 20
C21_Witness ==
    /\ origin = "loaded" /\ ticks = 2 /\ cmds = 0 /\ alive
    /\ Len(fruits) = 20 /\ grown = 20
    /\ SubSeq(fruits, 1, 19) = Orchard.fruit

\* C22: every price of the market is strictly above zero in every reachable
\* state, after any number of sells (each multiplies a price by 0.8) and
\* ticks (0.01 up below the base price, 0.01 down above twice the base price,
\* then a factor between 0.98 and 1.0225)
C22_PricesPositive ==
    \A fruit \in DOMAIN market : market[fruit] > 0

\* C22 witness: member 11 has sold all 22 fruits at once, which has brought the
\* banana to the smallest price a sell leaves, and a tick has then nudged and
\* repriced both kinds
C22_Witness ==
    /\ sold = Len(Glut.inventories[11]) /\ cmds = 1 /\ ticks = 1
    /\ market[":banana:"] > 0 /\ market[":banana:"] < 2 * (Scale \div 100)
    /\ market[":apple:"] > 0 /\ market[":apple:"] < 2 * Scale

\* C22, the floor: twenty sells of one kind have left its price where 0.8 of
\* it rounds back to itself
C22_FloorWitness ==
    /\ sold = Len(Glut.inventories[11]) /\ cmds = 1 /\ ticks = 0
    /\ market[":banana:"] > 0
    /\ (market[":banana:"] * 8 + 5) \div 10 = market[":banana:"]

\* C22, the pull from above: a tick has taken 0.01 off the apple, above twice
\* its base price, before the noise
C22_PullWitness ==
    /\ sold = 0 /\ cmds = 0 /\ ticks = 1
    /\ market[":apple:"] = Mul(Glut.market[":apple:"] - Scale \div 100, 9800)

====
